---------------------------- MODULE Spec2Model ----------------------------
(***************************************************************************)
(* Trace-context propagation of the Next.js / OpenTelemetry example:       *)
(*   - src/middleware.ts      middleware(), generateTraceParent(), toHex() *)
(*   - src/util/ids.ts        getIds()                                     *)
(*   - src/instrumentation.ts register()                                   *)
(* Strings are sequences of one-character strings, so that formatting and  *)
(* parsing are computed character by character.                            *)
(***************************************************************************)
EXTENDS Integers, Sequences, FiniteSets, Bags, TLC

VARIABLES
    otel,        \* "unbooted" | "registered" | "skipped": outcome of register()
    req,         \* req[r]: the inbound request (method, url, headers)
    randomFails, \* randomFails[r]: crypto.getRandomValues throws while r is served
    pc,          \* pc[r]: position of request r in its lifecycle
    gen,         \* gen[r]: value returned by generateTraceParent() for r
    log,         \* console output: the bag of middleware log records written
    forwarded,   \* forwarded[r]: header list handed to NextResponse.next
    activeSpan,  \* activeSpan[r]: span active in the execution scope of r
    ids,         \* ids[r]: value returned by the last getIds() call in scope r
    outbound,    \* outbound[r]: traceparent injected in r's outbound fetch
    cx, cy,      \* codec specification: two (traceId, spanId) byte inputs
    cout         \* codec specification: their encodings

vars == <<otel, req, randomFails, pc, gen, log, forwarded, activeSpan, ids, outbound, cx, cy, cout>>
sysVars == <<otel, req, randomFails, pc, gen, log, forwarded, activeSpan, ids, outbound>>
codecVars == <<cx, cy, cout>>

---------------------------------------------------------------------------
(* Bounds and program constants *)

NumReq == 2            \* concurrently handled requests
TraceIdLen == 16       \* new Uint8Array(16)
SpanIdLen == 8         \* new Uint8Array(8)
HexRadix == 16         \* byte.toString(16)
HexPad == 2            \* padStart(2, '0')

Reqs == 1..NumReq

---------------------------------------------------------------------------
(* Strings *)

HexDigits == <<"0","1","2","3","4","5","6","7","8","9","a","b","c","d","e","f">>
HexChars == {HexDigits[i] : i \in 1..Len(HexDigits)}

Str_traceparent == <<"t","r","a","c","e","p","a","r","e","n","t">>
Str_accept == <<"a","c","c","e","p","t">>
Str_any == <<"*","/","*">>
Str_null == <<"n","u","l","l">>
Str_dash == <<"-">>

\* Number.prototype.toString(radix) for a non-negative integer
RECURSIVE NumberToString(_, _)
NumberToString(n, radix) ==
    IF n < radix THEN <<HexDigits[n + 1]>>
    ELSE NumberToString(n \div radix, radix) \o <<HexDigits[(n % radix) + 1]>>

\* String.prototype.padStart(targetLength, padString) for a one-character pad
RECURSIVE PadStart(_, _, _)
PadStart(s, targetLength, padChar) ==
    IF Len(s) >= targetLength THEN s
    ELSE PadStart(<<padChar>> \o s, targetLength, padChar)

\* mutant: byte.toString() without the radix
ByteToDecimal(byte) == PadStart(NumberToString(byte, 10), HexPad, "0")

\* mutant: the byte is not padded
ByteToHexNoPad(byte) == NumberToString(byte, HexRadix)

\* (byte) => byte.toString(16).padStart(2, '0')
ByteToHex(byte) == PadStart(NumberToString(byte, HexRadix), HexPad, "0")

\* Array.from(buffer, f).join('')
RECURSIVE ToHex(_)
ToHex(buffer) ==
    IF buffer = <<>> THEN <<>>
    ELSE ByteToHex(Head(buffer)) \o ToHex(Tail(buffer))

\* `${versionHex}-${traceIdHex}-${spanIdHex}-${flags}`
TraceParentString(versionHex, traceIdHex, spanIdHex, flags) ==
    versionHex \o Str_dash \o traceIdHex \o Str_dash \o spanIdHex \o Str_dash \o flags

\* mutant: the returned identifiers are crossed
GenerateTraceParentCrossed(traceId, spanId) ==
    [traceParent |-> TraceParentString(ToHex(<<0>>), ToHex(traceId), ToHex(spanId), <<"0","1">>),
     traceId |-> ToHex(spanId),
     spanId |-> ToHex(traceId)]

\* generateTraceParent(), given the bytes crypto.getRandomValues wrote into
\* the traceId and the spanId buffers
GenerateTraceParent(traceId, spanId) ==
    LET versionHex == ToHex(<<0>>)
        traceIdHex == ToHex(traceId)
        spanIdHex == ToHex(spanId)
        flags == <<"0","1">>
    IN  [traceParent |-> TraceParentString(versionHex, traceIdHex, spanIdHex, flags),
         traceId |-> traceIdHex,
         spanId |-> spanIdHex]

---------------------------------------------------------------------------
(* Fetch Headers: a list of (name, value) entries *)

RECURSIVE HeadersValues(_, _)
\* the values the list holds under a name, in order
HeadersValues(h, name) ==
    IF h = <<>> THEN <<>>
    ELSE (IF Head(h).name = name THEN <<Head(h).value>> ELSE <<>>)
         \o HeadersValues(Tail(h), name)

RECURSIVE HeadersWithout(_, _)
HeadersWithout(h, name) ==
    IF h = <<>> THEN <<>>
    ELSE (IF Head(h).name = name THEN <<>> ELSE <<Head(h)>>)
         \o HeadersWithout(Tail(h), name)

RECURSIVE HeadersNew(_)
\* new Headers(init): every entry of init is appended to an empty list
HeadersNew(init) ==
    IF init = <<>> THEN <<>>
    ELSE <<[name |-> Head(init).name, value |-> Head(init).value]>>
         \o HeadersNew(Tail(init))

\* mutant: headers.append(name, value)
HeadersAppend(h, name, value) == Append(h, [name |-> name, value |-> value])

\* headers.set(name, value): the first entry of that name takes the value and
\* the others are removed; without one, the entry is appended
HeadersSet(h, name, value) ==
    IF \E i \in 1..Len(h) : h[i].name = name
    THEN LET first == CHOOSE i \in 1..Len(h) :
                          /\ h[i].name = name
                          /\ \A j \in 1..(i - 1) : h[j].name # name
         IN  SubSeq(h, 1, first - 1)
             \o <<[name |-> name, value |-> value]>>
             \o HeadersWithout(SubSeq(h, first + 1, Len(h)), name)
    ELSE Append(h, [name |-> name, value |-> value])

RECURSIVE JoinValues(_)
JoinValues(vs) ==
    IF Len(vs) = 1 THEN vs[1]
    ELSE vs[1] \o <<",", " ">> \o JoinValues(Tail(vs))

\* headers.get(name): the values of that name joined by ", "; <<>> stands
\* for null
HeadersGet(h, name) ==
    IF HeadersValues(h, name) = <<>> THEN <<>>
    ELSE JoinValues(HeadersValues(h, name))

---------------------------------------------------------------------------
(* Inputs *)

UpstreamTraceParent ==
    <<"0","0","-","0","a","f","7","6","5","1","9","1","6","c","d","4","3","d","d","8","4","4","8","e","b","2","1","1","c","8","0","3","1","9","c","-","b","7","a","d","6","b","7","1","6","9","2","0","3","3","3","1","-","0","1">>
MalformedTraceParent == <<"0","0","-","x","y","z","-","1","-","0","1">>

\* inbound requests: without a traceparent, with a valid upstream one, and
\* with two malformed ones
Requests ==
    { [method |-> "GET", url |-> "http://localhost:3000/",
       headers |-> <<[name |-> Str_accept, value |-> Str_any]>>],
      [method |-> "POST", url |-> "http://localhost:3000/api",
       headers |-> <<[name |-> Str_traceparent, value |-> UpstreamTraceParent],
                     [name |-> Str_accept, value |-> Str_any]>>],
      [method |-> "GET", url |-> "http://localhost:3000/about",
       headers |-> <<[name |-> Str_traceparent, value |-> MalformedTraceParent],
                     [name |-> Str_accept, value |-> Str_any],
                     [name |-> Str_traceparent, value |-> <<>>]>>] }

Zeros(n) == [i \in 1..n |-> 0]
ReadmeTraceId ==
    <<221, 25, 166, 17, 233, 236, 234, 117, 134, 2, 11, 126, 197, 117, 102, 208>>
ReadmeSpanId == <<91, 52, 236, 149, 228, 89, 211, 247>>

\* crypto.getRandomValues(buffer) on a buffer of n bytes: the contents it may
\* leave in the buffer. Any byte string is possible; the model draws from the
\* all-zero one and the identifiers of the README's example.
GetRandomValues(n) ==
    {Zeros(n)} \cup {b \in {ReadmeTraceId, ReadmeSpanId} : Len(b) = n}

---------------------------------------------------------------------------
(* State *)

NoGen == [traceParent |-> <<>>, traceId |-> <<>>, spanId |-> <<>>]
NoSpan == [traceId |-> <<>>, spanId |-> <<>>, parent |-> <<>>]
NoIds == [traceId |-> <<>>, spanId |-> <<>>]

Init ==
    /\ otel = "unbooted"
    /\ req \in [Reqs -> Requests]
    /\ randomFails \in [Reqs -> BOOLEAN]
    /\ pc = [r \in Reqs |-> "start"]
    /\ gen = [r \in Reqs |-> NoGen]
    /\ log = EmptyBag
    /\ forwarded = [r \in Reqs |-> <<>>]
    /\ activeSpan = [r \in Reqs |-> NoSpan]
    /\ ids = [r \in Reqs |-> NoIds]
    /\ outbound = [r \in Reqs |-> <<>>]
    /\ cx = <<>> /\ cy = <<>> /\ cout = <<>>

---------------------------------------------------------------------------
(* middleware.ts: middleware(req), one action per statement *)

\* const {traceParent, traceId, spanId} = generateTraceParent()
Generate(r) ==
    /\ pc[r] = "start"
    /\ ~randomFails[r]
    /\ \E traceId \in GetRandomValues(TraceIdLen), spanId \in GetRandomValues(SpanIdLen) :
          gen' = [gen EXCEPT ![r] = GenerateTraceParent(traceId, spanId)]
    /\ pc' = [pc EXCEPT ![r] = "generated"]
    /\ UNCHANGED <<otel, req, randomFails, log, forwarded, activeSpan, ids, outbound>>
    /\ UNCHANGED codecVars

\* mutant: the failure is caught and the request goes on without identifiers
GenerateSwallows(r) ==
    /\ pc[r] = "start"
    /\ randomFails[r]
    /\ pc' = [pc EXCEPT ![r] = "generated"]
    /\ UNCHANGED <<otel, req, randomFails, gen, log, forwarded, activeSpan, ids, outbound>>
    /\ UNCHANGED codecVars

\* crypto.getRandomValues throws in generateTraceParent(): nothing catches it,
\* so middleware() ends by throwing to its caller
GenerateThrows(r) ==
    /\ pc[r] = "start"
    /\ randomFails[r]
    /\ pc' = [pc EXCEPT ![r] = "threw"]
    /\ UNCHANGED <<otel, req, randomFails, gen, log, forwarded, activeSpan, ids, outbound>>
    /\ UNCHANGED codecVars

\* the record console.info writes from the identifiers g; req is the request
\* it was written for
RequestLogRecord(r, g) ==
    [req |-> r, traceId |-> g.traceId, spanId |-> g.spanId,
     method |-> req[r].method, url |-> req[r].url]

\* mutant: the record is written twice
ConsoleInfoTwice(out, record) == out (+) SetToBag({record}) (+) SetToBag({record})

\* console.info(line)
ConsoleInfo(out, record) == out (+) SetToBag({record})

LogRequest(r) ==
    /\ pc[r] = "generated"
    /\ log' = ConsoleInfo(log, RequestLogRecord(r, gen[r]))
    /\ pc' = [pc EXCEPT ![r] = "logged"]
    /\ UNCHANGED <<otel, req, randomFails, gen, forwarded, activeSpan, ids, outbound>>
    /\ UNCHANGED codecVars

\* mutant: an incoming traceparent is kept
ForwardedHeadersKeep(r, g) ==
    IF HeadersValues(req[r].headers, Str_traceparent) # <<>>
    THEN HeadersNew(req[r].headers)
    ELSE HeadersSet(HeadersNew(req[r].headers), Str_traceparent, g.traceParent)

\* const headers = new Headers(req.headers); headers.set('traceparent', traceParent)
ForwardedHeaders(r, g) ==
    HeadersSet(HeadersNew(req[r].headers), Str_traceparent, g.traceParent)

\* return NextResponse.next({...req, headers})
Forward(r) ==
    /\ pc[r] = "logged"
    /\ forwarded' = [forwarded EXCEPT ![r] = ForwardedHeaders(r, gen[r])]
    /\ pc' = [pc EXCEPT ![r] = "forwarded"]
    /\ UNCHANGED <<otel, req, randomFails, gen, log, activeSpan, ids, outbound>>
    /\ UNCHANGED codecVars

Next ==
    \/ \E r \in Reqs : Generate(r)
    \/ \E r \in Reqs : GenerateThrows(r)
    \/ \E r \in Reqs : LogRequest(r)
    \/ \E r \in Reqs : Forward(r)

Spec == Init /\ [][Next]_vars

---------------------------------------------------------------------------
(* instrumentation.ts *)

\* register(): registerOTel only when process.env.NEXT_RUNTIME is 'nodejs'.
\* The framework awaits register() before it serves a request.
Register ==
    /\ otel = "unbooted"
    /\ \E runtime \in {"nodejs", "edge"} :
          otel' = IF runtime = "nodejs" THEN "registered" ELSE "skipped"
    /\ UNCHANGED <<req, randomFails, pc, gen, log, forwarded, activeSpan, ids, outbound>>
    /\ UNCHANGED codecVars

---------------------------------------------------------------------------
(* middleware.ts: middleware(req) as the one synchronous call it is *)

Middleware(r) ==
    /\ otel # "unbooted"
    /\ pc[r] = "start"
    /\ ~randomFails[r]
    /\ \E traceId \in GetRandomValues(TraceIdLen), spanId \in GetRandomValues(SpanIdLen) :
          LET g == GenerateTraceParent(traceId, spanId)
          IN  /\ gen' = [gen EXCEPT ![r] = g]
              /\ log' = ConsoleInfo(log, RequestLogRecord(r, g))
              /\ forwarded' = [forwarded EXCEPT ![r] = ForwardedHeaders(r, g)]
    /\ pc' = [pc EXCEPT ![r] = "forwarded"]
    /\ UNCHANGED <<otel, req, randomFails, activeSpan, ids, outbound>>
    /\ UNCHANGED codecVars

MiddlewareThrows(r) ==
    /\ otel # "unbooted"
    /\ GenerateThrows(r)

---------------------------------------------------------------------------
(* The instrumentation registered by register(): W3C propagation *)

RECURSIVE Split(_, _)
\* String.prototype.split(separator) for a one-character separator
Split(s, sep) ==
    IF \A i \in 1..Len(s) : s[i] # sep THEN <<s>>
    ELSE LET k == CHOOSE i \in 1..Len(s) :
                      /\ s[i] = sep
                      /\ \A j \in 1..(i - 1) : s[j] # sep
         IN  <<SubSeq(s, 1, k - 1)>> \o Split(SubSeq(s, k + 1, Len(s)), sep)

IsHex(s) == \A i \in 1..Len(s) : s[i] \in HexChars
AllZero(s) == \A i \in 1..Len(s) : s[i] = "0"

Invalid == [valid |-> FALSE, traceId |-> <<>>, spanId |-> <<>>]

\* decoding of a carrier string: four dash-separated lowercase-hex fields of
\* 2, 32, 16 and 2 characters, version 00, identifiers not all zero
Decode(s) ==
    LET f == Split(s, "-")
    IN  IF /\ Len(f) = 4
           /\ Len(f[1]) = HexPad /\ Len(f[2]) = HexPad * TraceIdLen
           /\ Len(f[3]) = HexPad * SpanIdLen /\ Len(f[4]) = HexPad
           /\ \A i \in 1..4 : IsHex(f[i])
           /\ f[1] = <<"0", "0">>
           /\ ~AllZero(f[2]) /\ ~AllZero(f[3])
        THEN [valid |-> TRUE, traceId |-> f[2], spanId |-> f[3]]
        ELSE Invalid

\* identifiers the SDK's generator draws: new for every span
SdkSpanId(r) == [i \in 1..SpanIdLen |-> IF i = SpanIdLen THEN r ELSE 160]
SdkClientSpanId(r) == [i \in 1..SpanIdLen |-> IF i = SpanIdLen THEN r ELSE 176]
SdkTraceId(r) == [i \in 1..TraceIdLen |-> IF i = TraceIdLen THEN r ELSE 192]

\* the span the instrumentation starts for the request: a child of the
\* context extracted from the traceparent header, or a new root without one
ServerSpan(r) ==
    LET parent == Decode(HeadersGet(forwarded[r], Str_traceparent))
    IN  IF parent.valid
        THEN [traceId |-> parent.traceId, spanId |-> ToHex(SdkSpanId(r)),
              parent |-> parent.spanId]
        ELSE [traceId |-> ToHex(SdkTraceId(r)), spanId |-> ToHex(SdkSpanId(r)),
              parent |-> <<>>]

StartSpan(r) ==
    /\ otel = "registered"
    /\ pc[r] = "forwarded"
    /\ activeSpan' = [activeSpan EXCEPT ![r] = ServerSpan(r)]
    /\ pc' = [pc EXCEPT ![r] = "handling"]
    /\ UNCHANGED <<otel, req, randomFails, gen, log, forwarded, ids, outbound>>
    /\ UNCHANGED codecVars

---------------------------------------------------------------------------
(* util/ids.ts *)

\* mutant: one context for the whole process
ContextActiveShared(r) == [span |-> activeSpan[CHOOSE q \in Reqs : activeSpan[q] # NoSpan \/ q = r]]

\* context.active() called in the execution scope of request r
ContextActive(r) == [span |-> activeSpan[r]]

\* trace.getSpan(context)
GetSpan(context) == context.span

\* mutant: without a span the fields are left undefined
GetIdsNoDefault(r) ==
    LET span == GetSpan(ContextActive(r))
    IN  IF span = NoSpan THEN [traceId |-> <<>>, spanId |-> <<>>]
        ELSE [traceId |-> span.traceId, spanId |-> span.spanId]

\* getIds() called in the execution scope of request r
GetIds(r) ==
    LET span == GetSpan(ContextActive(r))
    IN  IF span = NoSpan THEN [traceId |-> Str_null, spanId |-> Str_null]
        ELSE [traceId |-> span.traceId, spanId |-> span.spanId]

\* application code of request r logs with getIds(): inside the server span,
\* or with no span when the instrumentation was not registered
GetIdsCall(r) ==
    /\ \/ pc[r] \in {"handling", "read"}
       \/ pc[r] = "forwarded" /\ otel = "skipped"
    /\ ids' = [ids EXCEPT ![r] = GetIds(r)]
    /\ pc' = [pc EXCEPT ![r] = "read"]
    /\ UNCHANGED <<otel, req, randomFails, gen, log, forwarded, activeSpan, outbound>>
    /\ UNCHANGED codecVars

\* fetch() to the external API inside the server span: the instrumentation
\* injects the traceparent of a client span, which the external API logs
Fetch(r) ==
    /\ pc[r] = "read"
    /\ activeSpan[r] # NoSpan
    /\ outbound' = [outbound EXCEPT ![r] =
           TraceParentString(<<"0", "0">>, activeSpan[r].traceId,
                             ToHex(SdkClientSpanId(r)), <<"0", "1">>)]
    /\ pc' = [pc EXCEPT ![r] = "called"]
    /\ UNCHANGED <<otel, req, randomFails, gen, log, forwarded, activeSpan, ids>>
    /\ UNCHANGED codecVars

---------------------------------------------------------------------------
(* A request from the edge stage to the Node.js stage *)

NodeNext ==
    \/ Register
    \/ \E r \in Reqs : Middleware(r)
    \/ \E r \in Reqs : MiddlewareThrows(r)
    \/ \E r \in Reqs : StartSpan(r)
    \/ \E r \in Reqs : GetIdsCall(r)
    \/ \E r \in Reqs : Fetch(r)

SpecNode == Init /\ [][NodeNext]_vars

---------------------------------------------------------------------------
(* The carrier encoding as a function of the random bytes *)

CodecBytes == {0, 1, 16, 17, 255}
CodecTraceIds ==
    {[i \in 1..TraceIdLen |-> IF i = 1 THEN a ELSE IF i = 2 THEN b ELSE 0] :
        a \in CodecBytes, b \in CodecBytes} \cup {ReadmeTraceId}
CodecSpanIds ==
    {[i \in 1..SpanIdLen |-> IF i = SpanIdLen - 1 THEN a ELSE IF i = SpanIdLen THEN b ELSE 0] :
        a \in {1, 17}, b \in {0, 16}} \cup {Zeros(SpanIdLen), ReadmeSpanId}
CodecInputs == [traceId : CodecTraceIds, spanId : CodecSpanIds]

CodecInit ==
    /\ otel = "unbooted"
    /\ req = [r \in Reqs |-> CHOOSE q \in Requests : q.method = "POST"]
    /\ randomFails = [r \in Reqs |-> FALSE]
    /\ pc = [r \in Reqs |-> "start"]
    /\ gen = [r \in Reqs |-> NoGen]
    /\ log = EmptyBag
    /\ forwarded = [r \in Reqs |-> <<>>]
    /\ activeSpan = [r \in Reqs |-> NoSpan]
    /\ ids = [r \in Reqs |-> NoIds]
    /\ outbound = [r \in Reqs |-> <<>>]
    /\ cx \in CodecInputs
    /\ cy \in CodecInputs
    /\ cout = <<>>

\* generateTraceParent() run on each of the two inputs
Encode ==
    /\ cout = <<>>
    /\ cout' = <<GenerateTraceParent(cx.traceId, cx.spanId),
                 GenerateTraceParent(cy.traceId, cy.spanId)>>
    /\ UNCHANGED <<cx, cy>>
    /\ UNCHANGED sysVars

SpecCodec == CodecInit /\ [][Encode]_vars

---------------------------------------------------------------------------
(* Vocabulary of the properties *)

IsForwarded(r) == pc[r] \in {"forwarded", "handling", "read", "called"}
TraceParentValues(r) == HeadersValues(forwarded[r], Str_traceparent)
LogRecordsOf(r) == {rec \in BagToSet(log) : rec.req = r}
LogCount(r) == BagCardinality([rec \in LogRecordsOf(r) |-> log[rec]])
Sentinel == [traceId |-> Str_null, spanId |-> Str_null]
Field(s, i) == Split(s, "-")[i]

\* every value an element of a Uint8Array can hold
ByteRange == 0..255
EveryByteTwoHexDigits ==
    \A b \in ByteRange : Len(ByteToHex(b)) = 2 /\ IsHex(ByteToHex(b))
EveryByteOwnDigits ==
    \A a \in ByteRange, b \in ByteRange : a # b => ByteToHex(a) # ByteToHex(b)

\* ^[0-9a-f]{2}-[0-9a-f]{32}-[0-9a-f]{16}-[0-9a-f]{2}$
MatchesGrammar(s) ==
    /\ Len(s) = 55
    /\ \A i \in 1..55 :
          IF i \in {3, 36, 53} THEN s[i] = "-" ELSE s[i] \in HexChars

---------------------------------------------------------------------------
(* C1: whatever traceparent the incoming request carries (none, a valid    *)
(* one, malformed ones), the headers handed to NextResponse.next hold      *)
(* exactly one traceparent value, the string generateTraceParent()         *)
(* returned in that invocation.                                            *)
C1_FreshTraceParentOnly ==
    \A r \in Reqs :
        IsForwarded(r) =>
            /\ TraceParentValues(r) = <<gen[r].traceParent>>
            /\ gen[r] # NoGen

C1_Witness ==
    \E r \in Reqs, q \in Reqs :
        /\ pc[r] = "forwarded" /\ pc[q] = "forwarded"
        /\ HeadersValues(req[r].headers, Str_traceparent) = <<UpstreamTraceParent>>
        /\ Len(HeadersValues(req[q].headers, Str_traceparent)) = 2

(* C2: every string generateTraceParent() returns matches the grammar      *)
(* 2-32-16-2 lowercase hex, with version 00 and flags 01; every byte value *)
(* 0..255 is written as two lowercase hex digits.                          *)
C2_WellFormed ==
    /\ EveryByteTwoHexDigits
    /\ \A i \in 1..Len(cout) :
          /\ MatchesGrammar(cout[i].traceParent)
          /\ SubSeq(cout[i].traceParent, 1, 2) = <<"0", "0">>
          /\ SubSeq(cout[i].traceParent, 54, 55) = <<"0", "1">>

C2_Witness ==
    /\ cout # <<>>
    /\ cx.traceId[1] = 1 /\ cx.traceId[2] = 255
    /\ cy.traceId = ReadmeTraceId /\ cy.spanId = ReadmeSpanId

(* C3: the traceparent a forwarded request carries never has an all-zero   *)
(* traceId field and never an all-zero spanId field.                       *)
C3_NeverAllZero ==
    \A r \in Reqs :
        IsForwarded(r) =>
            \A i \in 1..Len(TraceParentValues(r)) :
                /\ ~AllZero(Field(TraceParentValues(r)[i], 2))
                /\ ~AllZero(Field(TraceParentValues(r)[i], 3))

(* C4: a forwarded request has exactly one log record, and the record is   *)
(* there in the state from which the request is forwarded.                 *)
C4_OneLogBeforeForward ==
    /\ [](\A r \in Reqs : IsForwarded(r) => LogCount(r) = 1)
    /\ [](\A r \in Reqs : LogCount(r) <= 1)
    /\ [][\A r \in Reqs :
            (~IsForwarded(r) /\ IsForwarded(r)') => LogCount(r) = 1]_vars

C4_Witness ==
    \A r \in Reqs : pc[r] = "forwarded" /\ LogCount(r) = 1

(* C5, as stated: when the random source fails while a request is served,  *)
(* middleware() does not end by throwing; the request is forwarded.        *)
C5_FailureStillForwards ==
    \A r \in Reqs :
        (randomFails[r] /\ pc[r] # "start") => IsForwarded(r)

(* C5, amended: when the random source fails while a request is served,    *)
(* middleware() ends by throwing to its caller: the request is not         *)
(* forwarded, no header is set and no log record is written for it.        *)
C5_FailurePropagates ==
    \A r \in Reqs :
        (randomFails[r] /\ pc[r] # "start") =>
            /\ pc[r] = "threw"
            /\ forwarded[r] = <<>>
            /\ gen[r] = NoGen
            /\ LogCount(r) = 0

C5_Witness ==
    \E r \in Reqs, q \in Reqs :
        /\ randomFails[r] /\ pc[r] = "threw"
        /\ ~randomFails[q] /\ pc[q] = "forwarded"

(* C6: getIds() with no active span returns {traceId: 'null', spanId:      *)
(* 'null'}; a further call with still no active span returns the same and  *)
(* changes nothing.                                                        *)
C6_AbsenceSafe ==
    /\ [](\A r \in Reqs :
            (pc[r] = "read" /\ activeSpan[r] = NoSpan) => ids[r] = Sentinel)
    /\ [][\A r \in Reqs :
            (pc[r] = "read" /\ activeSpan[r] = NoSpan /\ GetIdsCall(r)) =>
                (ids' = ids /\ UNCHANGED vars)]_vars

C6_Witness ==
    \E r \in Reqs :
        /\ pc[r] = "read" /\ activeSpan[r] = NoSpan
        /\ ids[r].traceId = Str_null /\ ids[r].spanId = Str_null

(* C7: with requests handled concurrently, each in its own scope, getIds() *)
(* returns the identifiers of the span active in the caller's scope (or    *)
(* the sentinel), never those of another request's span, and a call        *)
(* leaves every active span as it was.                                     *)
C7_OwnScopeOnly ==
    /\ [](\A r \in Reqs :
            pc[r] \in {"read", "called"} =>
                /\ ids[r] = IF activeSpan[r] = NoSpan THEN Sentinel
                            ELSE [traceId |-> activeSpan[r].traceId,
                                  spanId |-> activeSpan[r].spanId]
                /\ \A q \in Reqs \ {r} :
                      activeSpan[q] # NoSpan => ids[r].spanId # activeSpan[q].spanId)
    /\ [][\A r \in Reqs : GetIdsCall(r) => activeSpan' = activeSpan]_vars

C7_Witness ==
    /\ \A r \in Reqs : pc[r] = "read" /\ activeSpan[r] # NoSpan
    /\ \E r \in Reqs, q \in Reqs : activeSpan[r].traceId # activeSpan[q].traceId

(* C8: when the server span of a request has the middleware's traceparent  *)
(* as parent, getIds() inside it returns the traceId the middleware        *)
(* generated and logged for that request and the server span's spanId, not *)
(* the middleware's spanId; the traceparent of an outbound call carries    *)
(* the same traceId.                                                       *)
C8_TraceContinuity ==
    \A r \in Reqs :
        (pc[r] \in {"read", "called"} /\ activeSpan[r].parent # <<>>) =>
            /\ LogCount(r) = 1
            /\ \A rec \in LogRecordsOf(r) :
                  /\ ids[r].traceId = rec.traceId
                  /\ ids[r].traceId = gen[r].traceId
                  /\ ids[r].spanId = activeSpan[r].spanId
                  /\ ids[r].spanId # rec.spanId
                  /\ activeSpan[r].parent = rec.spanId
                  /\ pc[r] = "called" =>
                        /\ MatchesGrammar(outbound[r])
                        /\ Field(outbound[r], 2) = rec.traceId

C8_Witness ==
    \E r \in Reqs :
        /\ pc[r] = "called" /\ activeSpan[r].parent # <<>>
        /\ HeadersValues(req[r].headers, Str_traceparent) = <<UpstreamTraceParent>>
        /\ ids[r].traceId = ToHex(ReadmeTraceId)

(* C9: the encoding is total and injective: two inputs that differ in a    *)
(* byte of the traceId or of the spanId encode to different strings, and   *)
(* two different byte values 0..255 never share their two digits.          *)
C9_Injective ==
    /\ EveryByteOwnDigits
    /\ cout # <<>> =>
          /\ \A i \in 1..2 : Len(cout[i].traceParent) > 0
          /\ cx # cy => cout[1].traceParent # cout[2].traceParent

C9_Witness ==
    /\ cout # <<>>
    /\ cx.traceId[1] = 1 /\ cx.traceId[2] = 16
    /\ cy.traceId[1] = 17 /\ cy.traceId[2] = 0
    /\ cx.spanId = cy.spanId

(* C10: under any interleaving of middleware() invocations, the traceId   *)
(* and spanId in a request's log record, beside that request's method and *)
(* url, are those of the traceparent set on that request's headers.       *)
C10_LogMatchesHeader ==
    \A r \in Reqs :
        \A rec \in LogRecordsOf(r) :
            /\ rec.method = req[r].method /\ rec.url = req[r].url
            /\ rec.traceId = Field(gen[r].traceParent, 2)
            /\ rec.spanId = Field(gen[r].traceParent, 3)
            /\ IsForwarded(r) =>
                  /\ Len(TraceParentValues(r)) = 1
                  /\ rec.traceId = Field(TraceParentValues(r)[1], 2)
                  /\ rec.spanId = Field(TraceParentValues(r)[1], 3)

C10_Witness ==
    \E r \in Reqs, q \in Reqs :
        /\ pc[r] = "forwarded" /\ pc[q] = "logged"
        /\ gen[r].traceId # gen[q].traceId /\ gen[r].spanId # gen[q].spanId
        /\ LogCount(r) = 1 /\ LogCount(q) = 1

=============================================================================
